---- MODULE Spec2Model ----
(***************************************************************************)
(* IndraNet (indra/assemblers/indranet/net.py): a directed multigraph is   *)
(* built from a table of pairwise interactions (from_df), flattened to a   *)
(* DiGraph (to_digraph) or to a signed MultiDiGraph (to_signed_graph), and *)
(* every flattened edge gets a belief (_update_edge_belief).               *)
(*                                                                         *)
(* Graphs are kept the way networkx keeps them: nodes in insertion order,  *)
(* edges in creation order, an edge's data dict addressed by reference     *)
(* (its position in the edge list).  Loops run one iteration per step.     *)
(***************************************************************************)
EXTENDS Integers, Sequences, FiniteSets, TLC

VARIABLES df, call, method, sign_dict, pc, index, skipped, nodes, edges, log,
          gi, gnodes, gedges, bi, calls, ev, blist, ag

vars == <<df, call, method, sign_dict, pc, index, skipped, nodes, edges, log,
          gi, gnodes, gedges, bi, calls, ev, blist, ag>>

(* ------------------------------ bounds -------------------------------- *)

\* Longest input table, in rows.
MaxRows == 3

\* Longest belief list handed to _complementary_belief on its own.
MaxList == 320

(* ---------------------------- small helpers --------------------------- *)

Min(S) == CHOOSE x \in S : \A y \in S : x <= y

\* Python's None.
None == "None"

(* ------------------------------ columns ------------------------------- *)

mandatory_columns ==
    {"agA_name", "agB_name", "agA_ns", "agA_id", "agB_ns", "agB_id",
     "stmt_type", "evidence_count", "stmt_hash", "belief", "source_counts"}

\* The spelling of every column name the tables of the model use.
Spell ==
    [agA_name |-> <<"a","g","A","_","n","a","m","e">>,
     agB_name |-> <<"a","g","B","_","n","a","m","e">>,
     agA_ns |-> <<"a","g","A","_","n","s">>,
     agA_id |-> <<"a","g","A","_","i","d">>,
     agB_ns |-> <<"a","g","B","_","n","s">>,
     agB_id |-> <<"a","g","B","_","i","d">>,
     stmt_type |-> <<"s","t","m","t","_","t","y","p","e">>,
     evidence_count |-> <<"e","v","i","d","e","n","c","e","_","c","o","u","n","t">>,
     stmt_hash |-> <<"s","t","m","t","_","h","a","s","h">>,
     belief |-> <<"b","e","l","i","e","f">>,
     source_counts |-> <<"s","o","u","r","c","e","_","c","o","u","n","t","s">>,
     agA_x |-> <<"a","g","A","_","x">>,
     agB_x |-> <<"a","g","B","_","x">>,
     agC_x |-> <<"a","g","C","_","x">>,
     w |-> <<"w">>,
     key |-> <<"k","e","y">>,
     u_for_edge |-> <<"u","_","f","o","r","_","e","d","g","e">>]

\* str.startswith
StartsWith(c, p) ==
    /\ Len(Spell[c]) >= Len(p)
    /\ \A i \in 1..Len(p) : Spell[c][i] = p[i]

\* node_keys['agA'], node_keys['agB'] and edge_keys of from_df.
NodeKeysA(columns) ==
    {c \in columns \ mandatory_columns : StartsWith(c, <<"a","g","A","_">>)}

NodeKeysB(columns) ==
    {c \in columns \ mandatory_columns : StartsWith(c, <<"a","g","B","_">>)}

EdgeKeys(columns) ==
    {c \in columns \ mandatory_columns : ~StartsWith(c, <<"a","g">>)}

\* The check with the subset test the wrong way round.
MissingColumns_Reversed(columns) == ~(columns \subseteq mandatory_columns)

\* The column check of from_df: True when the ValueError is raised.
MissingColumns(columns) == ~(mandatory_columns \subseteq columns)

(* --------------------------- belief values ---------------------------- *)

\* A belief 1 - 2^-k (k = 0 is 0.0; k <= 53 is a double), 1.0 itself, the
\* fallback constant, or a number of a caller's own (in hundredths).
Cpl(k) == [t |-> "cpl", k |-> k]

One == [t |-> "one", k |-> 0]

Fallback == [t |-> "fallback", k |-> 0]

Num(n) == [t |-> "num", k |-> n]

NoBelief == [t |-> "unset", k |-> 0]

(* ----------------------------- input tables --------------------------- *)

\* What a row holds besides its endpoint names: three kinds of interaction.
Content ==
    << [agA_ns |-> "HGNC", agA_id |-> "1", agB_ns |-> "HGNC", agB_id |-> "2",
        stmt_type |-> "Activation", evidence_count |-> 1, stmt_hash |-> "h1",
        belief |-> Cpl(1), source_counts |-> << <<"reach", 1>> >>,
        agA_x |-> "x1", agB_x |-> "y1", agC_x |-> "z1", w |-> "w1"],
       [agA_ns |-> "FPLX", agA_id |-> "3", agB_ns |-> "FPLX", agB_id |-> "4",
        stmt_type |-> "Inhibition", evidence_count |-> 3, stmt_hash |-> "h2",
        belief |-> Cpl(3),
        source_counts |-> << <<"reach", 1>>, <<"sparser", 2>> >>,
        agA_x |-> "x2", agB_x |-> "y2", agC_x |-> "z2", w |-> "w2"],
       [agA_ns |-> "CHEBI", agA_id |-> "5", agB_ns |-> "CHEBI", agB_id |-> "6",
        stmt_type |-> "Complex", evidence_count |-> 0, stmt_hash |-> "h3",
        belief |-> One, source_counts |-> << <<"trips", 0>> >>,
        agA_x |-> "x3", agB_x |-> "y3", agC_x |-> "z3", w |-> "w3"] >>

\* A row with every column of the model; RowOver keeps the table's columns.
BaseRow(a, b, v, k, u) ==
    [agA_name |-> a, agB_name |-> b, key |-> k, u_for_edge |-> u] @@ Content[v]

RowOver(columns, r) == [c \in columns |-> r[c]]

\* df is a table of up to MaxRows of the given rows, cut to the columns.
IsTableOf(columns, rows) ==
    \E n \in 0..MaxRows :
        \E t \in [1..n -> {RowOver(columns, r) : r \in rows}] :
            df = [columns |-> columns, rows |-> t]

\* Tables given to from_df alone: with null endpoints, with extra columns of
\* every class (node A, node B, edge, unrecognised 'ag' prefix, and the names
\* of add_edge's own parameters), and with a mandatory column missing.
IngestColumns ==
    {mandatory_columns,
     mandatory_columns \cup {"agA_x", "agB_x", "agC_x", "w"},
     mandatory_columns \cup {"key"},
     mandatory_columns \cup {"u_for_edge"},
     mandatory_columns \ {"agB_name"},
     (mandatory_columns \ {"belief", "source_counts"}) \cup {"w"}}

IngestPairs ==
    {<<"a", "b">>, <<"c", "a">>, <<"a", "a">>, <<None, "b">>, <<"a", None>>}

IngestRows ==
    {BaseRow(p[1], p[2], v, k, "c") : p \in IngestPairs, v \in {1, 2}, k \in {0, 1}}

IsIngestTable == \E cs \in IngestColumns : IsTableOf(cs, IngestRows)

\* Tables given to the flatteners: parallel edges of three statement types
\* between two nodes, and a row that is skipped.
FlatRows ==
    {BaseRow("a", "b", v, 0, "c") : v \in {1, 2, 3}}
        \cup {BaseRow("b", "a", v, 0, "c") : v \in {1, 2}}
        \cup {BaseRow(None, "b", 1, 0, "c")}

IsFlatTable == IsTableOf(mandatory_columns, FlatRows)

(* ------------------------------- graphs ------------------------------- *)

HasNode(ns, n) == \E i \in 1..Len(ns) : ns[i].name = n

\* nx.Graph.add_node for a node that is not in the graph.
add_node(ns, n, attr) == Append(ns, [name |-> n, attr |-> attr])

\* The nodes after add_edge(u, v): missing endpoints are created bare.
EdgeNodes(ns, u, v) ==
    LET n1 == IF HasNode(ns, u) THEN ns ELSE add_node(ns, u, {})
    IN  IF HasNode(n1, v) THEN n1 ELSE add_node(n1, v, {})

KeysOf(es, u, v) == {es[i].key : i \in {j \in 1..Len(es) : es[j].u = u /\ es[j].v = v}}

\* MultiGraph.new_edge_key: len(keydict), stepped past the keys in use.
new_edge_key(es, u, v) ==
    LET used == KeysOf(es, u, v)
    IN  Min({k \in Cardinality(used)..(2 * Cardinality(used)) : k \notin used})

\* MultiDiGraph.add_edge(u, v, key, **d) on the edge list; key is << >> for
\* key=None and <<k>> for a given key.  With no key the next one is taken; an
\* edge that has the key keeps its place and takes d.
add_edge(es, u, v, key, d) ==
    LET k == IF key = << >> THEN new_edge_key(es, u, v) ELSE key[1]
        at == {i \in 1..Len(es) : es[i].u = u /\ es[i].v = v /\ es[i].key = k}
    IN  IF at = {}
        THEN Append(es, [u |-> u, v |-> v, key |-> k, d |-> d])
        ELSE [es EXCEPT ![CHOOSE i \in at : TRUE].d = d]

Pairs(attrs, row) == {<<c, row[c]>> : c \in attrs}

(* ------------------------------- from_df ------------------------------ *)

Row == df.rows[index + 1]

\* The keyword arguments of graph.add_edge(**ed): a column named like one of
\* add_edge's parameters replaces that argument instead of becoming data.
EdU(row) == IF "u_for_edge" \in DOMAIN row THEN row["u_for_edge"] ELSE row["agA_name"]

EdV(row) == row["agB_name"]

EdKey(row) == IF "key" \in DOMAIN row THEN <<row["key"]>> ELSE << >>

EdData(row) ==
    [stmt_hash |-> row["stmt_hash"], stmt_type |-> row["stmt_type"],
     evidence_count |-> row["evidence_count"], belief |-> row["belief"],
     source_counts |-> row["source_counts"],
     extra |-> Pairs(EdgeKeys(DOMAIN row) \ {"key", "u_for_edge"}, row)]

\* The null test of a row.
IsSkipped(row) == row["agA_name"] = None \/ row["agB_name"] = None

\* 'Add non-existing nodes': A first, then B.
RowNodes(ns, row) ==
    LET a == row["agA_name"]
        b == row["agB_name"]
        n1 == IF HasNode(ns, a) THEN ns
              ELSE add_node(ns, a, {<<"ns", row["agA_ns"]>>, <<"id", row["agA_id"]>>}
                                      \cup Pairs(NodeKeysA(DOMAIN row), row))
    IN  IF HasNode(n1, b) THEN n1
        ELSE add_node(n1, b, {<<"ns", row["agB_ns"]>>, <<"id", row["agB_id"]>>}
                                \cup Pairs(NodeKeysB(DOMAIN row), row))

flatVars == <<gi, gnodes, gedges, bi, calls, ev>>

fnVars == <<blist, ag>>

\* graph = cls() and the column check.
CheckColumns ==
    /\ pc = "from_df"
    /\ pc' = IF MissingColumns(df.columns) THEN "raised" ELSE "rows"
    /\ UNCHANGED <<df, call, method, sign_dict, index, skipped, nodes, edges, log>>
    /\ UNCHANGED flatVars /\ UNCHANGED fnVars

\* One iteration of the row loop that takes the 'continue'.
SkipRow ==
    /\ pc = "rows"
    /\ index < Len(df.rows)
    /\ IsSkipped(Row)
    /\ skipped' = skipped + 1
    /\ log' = Append(log, [msg |-> "None found as node", n |-> index])
    /\ index' = index + 1
    /\ UNCHANGED <<df, call, method, sign_dict, pc, nodes, edges>>
    /\ UNCHANGED flatVars /\ UNCHANGED fnVars

\* One iteration of the row loop that adds the row's nodes and edge.
AddRow ==
    /\ pc = "rows"
    /\ index < Len(df.rows)
    /\ ~IsSkipped(Row)
    /\ nodes' = EdgeNodes(RowNodes(nodes, Row), EdU(Row), EdV(Row))
    /\ edges' = add_edge(edges, EdU(Row), EdV(Row), EdKey(Row), EdData(Row))
    /\ index' = index + 1
    /\ UNCHANGED <<df, call, method, sign_dict, pc, skipped, log>>
    /\ UNCHANGED flatVars /\ UNCHANGED fnVars

\* The end of the loop: the summary warning and 'return graph'.
ReturnGraph ==
    /\ pc = "rows"
    /\ index = Len(df.rows)
    /\ log' = IF skipped # 0
              THEN Append(log, [msg |-> "Skipped edges with None as node", n |-> skipped])
              ELSE log
    /\ pc' = "returned"
    /\ UNCHANGED <<df, call, method, sign_dict, index, skipped, nodes, edges>>
    /\ UNCHANGED flatVars /\ UNCHANGED fnVars

InitGraph ==
    /\ call = "from_df"
    /\ method = "None"
    /\ sign_dict = << >>
    /\ index = 0
    /\ skipped = 0
    /\ nodes = << >>
    /\ edges = << >>
    /\ log = << >>
    /\ gi = 0
    /\ gnodes = << >>
    /\ gedges = << >>
    /\ bi = 0
    /\ calls = << >>
    /\ ev = << >>
    /\ ag = NoBelief

InitIngest == IsIngestTable /\ pc = "from_df" /\ InitGraph /\ blist = << >>

NextIngest == CheckColumns \/ SkipRow \/ AddRow \/ ReturnGraph

SpecIngest == InitIngest /\ [][NextIngest]_vars

(* ------------------------- iteration of a graph ----------------------- *)

NodePos(ns, n) == CHOOSE i \in 1..Len(ns) : ns[i].name = n

FirstOfPair(es, i) == Min({j \in 1..Len(es) : es[j].u = es[i].u /\ es[j].v = es[i].v})

\* Edge i comes before edge j in G.edges: by source node (node order), then
\* by neighbour (order in which the pair got its first edge), then by key
\* (order of creation within the pair).
EdgeBefore(ns, es, i, j) ==
    LET pi == NodePos(ns, es[i].u)
        pj == NodePos(ns, es[j].u)
        fi == FirstOfPair(es, i)
        fj == FirstOfPair(es, j)
    IN  \/ pi < pj
        \/ pi = pj /\ fi < fj
        \/ pi = pj /\ fi = fj /\ i < j

\* The positions of the edges of a graph in the order G.edges yields them.
EdgeIter(ns, es) ==
    [k \in 1..Len(es) |->
        CHOOSE i \in 1..Len(es) :
            Cardinality({j \in 1..Len(es) : EdgeBefore(ns, es, j, i)}) = k - 1]

(* ------------------------------ flattening ---------------------------- *)

\* flattening_method: None, 'complementary_belief' or a function.
Methods == {"None", "complementary_belief", "custom"}

\* The sign dictionaries the callers of the model pass.
SignDicts ==
    {[Activation |-> 1, Inhibition |-> -1],
     [Activation |-> 1, Inhibition |-> 1, Complex |-> -1],
     [Activation |-> 1, Inhibition |-> -1, Complex |-> 0]}

\* What the external scorer and a caller's function return.
ScorerValues == {Cpl(1), Cpl(2)}

CustomValues == {Cpl(2), Num(150)}

\* The next raw edge of 'for u, v, data in self.edges(data=True)'; its data
\* dict is passed on by reference (its position in edges).
RawAt == EdgeIter(nodes, edges)[gi + 1]

\* has_edge that never finds the edge.
FlatAt_Never(es, u, v, key) == {}

\* G.has_edge(u, v) and SG.has_edge(u, v, sign): the edge with that key.
FlatAt(es, u, v, key) ==
    {i \in 1..Len(es) : es[i].u = u /\ es[i].v = v /\ es[i].key = key}

\* Grouping that starts the list anew instead of appending to it.
GroupInto_Replace(es, u, v, key, sign, ref) ==
    IF FlatAt(es, u, v, key) # {}
    THEN [es EXCEPT ![CHOOSE i \in FlatAt(es, u, v, key) : TRUE].statements = <<ref>>]
    ELSE Append(es, [u |-> u, v |-> v, key |-> key, statements |-> <<ref>>,
                     sign |-> sign, belief |-> NoBelief])

\* G[u][v]['statements'].append(data) or G.add_edge(u, v, statements=[data]).
GroupInto(es, u, v, key, sign, ref) ==
    IF FlatAt(es, u, v, key) # {}
    THEN [es EXCEPT ![CHOOSE i \in FlatAt(es, u, v, key) : TRUE].statements =
                        Append(@, ref)]
    ELSE Append(es, [u |-> u, v |-> v, key |-> key, statements |-> <<ref>>,
                     sign |-> sign, belief |-> NoBelief])

ingestFrame == <<df, index, skipped, nodes, edges>>

tableFrame == <<df, index, skipped, nodes>>

\* net.to_digraph(flattening_method): G = nx.DiGraph().
ToDigraph ==
    /\ pc = "returned"
    /\ \E m \in Methods : method' = m
    /\ call' = "to_digraph"
    /\ pc' = "group"
    /\ UNCHANGED <<sign_dict, log>>
    /\ UNCHANGED ingestFrame /\ UNCHANGED flatVars /\ UNCHANGED fnVars

\* net.to_signed_graph(sign_dict, flattening_method): SG = nx.MultiDiGraph().
ToSignedGraph ==
    /\ pc = "returned"
    /\ \E m \in Methods : method' = m
    /\ \E sd \in SignDicts : sign_dict' = sd
    /\ call' = "to_signed_graph"
    /\ pc' = "group"
    /\ UNCHANGED log
    /\ UNCHANGED ingestFrame /\ UNCHANGED flatVars /\ UNCHANGED fnVars

\* One iteration of the grouping loop of to_digraph.
GroupDigraph ==
    /\ pc = "group" /\ call = "to_digraph"
    /\ gi < Len(edges)
    /\ LET e == edges[RawAt]
       IN  /\ gedges' = GroupInto(gedges, e.u, e.v, << >>, << >>, RawAt)
           /\ gnodes' = EdgeNodes(gnodes, e.u, e.v)
    /\ gi' = gi + 1
    /\ UNCHANGED <<call, method, sign_dict, pc, log, bi, calls, ev>>
    /\ UNCHANGED ingestFrame /\ UNCHANGED fnVars

\* One iteration of the grouping loop of to_signed_graph.
GroupSigned ==
    /\ pc = "group" /\ call = "to_signed_graph"
    /\ gi < Len(edges)
    /\ LET e == edges[RawAt]
           t == e.d.stmt_type
       IN  IF t \notin DOMAIN sign_dict
           THEN UNCHANGED <<gedges, gnodes>>
           ELSE /\ gedges' = GroupInto(gedges, e.u, e.v, <<sign_dict[t]>>,
                                       <<sign_dict[t]>>, RawAt)
                /\ gnodes' = EdgeNodes(gnodes, e.u, e.v)
    /\ gi' = gi + 1
    /\ UNCHANGED <<call, method, sign_dict, pc, log, bi, calls, ev>>
    /\ UNCHANGED ingestFrame /\ UNCHANGED fnVars

\* The belief pass entered from inside the grouping loop.
GroupDone_Early ==
    /\ pc = "group"
    /\ pc' = "belief"
    /\ calls' = [i \in 1..Len(gedges) |-> << >>]
    /\ UNCHANGED <<call, method, sign_dict, log, gi, gnodes, gedges, bi, ev>>
    /\ UNCHANGED ingestFrame /\ UNCHANGED fnVars

\* The end of the grouping loop: self._update_edge_belief(G, method) is entered.
GroupDone ==
    /\ pc = "group"
    /\ gi = Len(edges)
    /\ pc' = "belief"
    /\ calls' = [i \in 1..Len(gedges) |-> << >>]
    /\ UNCHANGED <<call, method, sign_dict, log, gi, gnodes, gedges, bi, ev>>
    /\ UNCHANGED ingestFrame /\ UNCHANGED fnVars

(* ------------------------- belief aggregation ------------------------- *)

\* np.longfloat on x86-64: a 64-bit significand, and 2^-16445 the smallest
\* positive (subnormal) value.
LongFloatBits == 64

LongFloatMinExp == 16445

\* np.longfloat(1.0) - belief, as the exponent k of 2^-k; zero is "zero".
\* 1 - (1 - 2^-k) is exact for a double belief.
Complement(b) == IF b.t = "cpl" THEN [zero |-> FALSE, e |-> b.k]
                 ELSE [zero |-> TRUE, e |-> 0]

\* One multiplication of np.prod: exact, except that a non-zero product
\* below the smallest subnormal rounds to zero and raises the underflow flag.
MulStep(acc, term) ==
    IF acc.zero \/ term.zero
    THEN [zero |-> TRUE, e |-> 0, flag |-> acc.flag]
    ELSE IF acc.e + term.e > LongFloatMinExp
         THEN [zero |-> TRUE, e |-> 0, flag |-> TRUE]
         ELSE [zero |-> FALSE, e |-> acc.e + term.e, flag |-> acc.flag]

RECURSIVE ProdRange(_, _, _, _)
\* np.prod(np.fromiter(...)): the factors lo..hi are multiplied into acc in
\* list order: the left half of the range first, then the right half into
\* the product of the left (a zero product stays zero either way).
ProdRange(bl, lo, hi, acc) ==
    IF lo > hi THEN acc
    ELSE IF lo = hi THEN MulStep(acc, Complement(bl[lo]))
    ELSE LET mid == (lo + hi) \div 2
             left == ProdRange(bl, lo, mid, acc)
         IN  IF left.zero
             THEN ProdRange(bl, mid + 1, hi, [zero |-> TRUE, e |-> 0, flag |-> left.flag])
             ELSE ProdRange(bl, mid + 1, hi, left)

Prod(bl) == ProdRange(bl, 1, Len(bl), [zero |-> FALSE, e |-> 0, flag |-> FALSE])

\* np.seterr(all='raise'): the flag becomes a FloatingPointError.
RaisesFloatingPointError(bl) == Prod(bl).flag

\* np.longfloat(1.0) - p, rounded to the significand (inexact is not raised).
OneMinus(p) ==
    IF p.zero THEN One
    ELSE IF p.e > LongFloatBits THEN One ELSE Cpl(p.e)

\* The computation without its except clause: the rounded difference as it is.
complementary_belief_NoFallback(bl) == OneMinus(Prod(bl))

\* The product taken over the first statement only.
complementary_belief_First(bl) ==
    IF bl = << >> THEN One
    ELSE OneMinus(MulStep([zero |-> FALSE, e |-> 0, flag |-> FALSE], Complement(bl[1])))

\* _complementary_belief on the list of beliefs of the edge's statements.
complementary_belief(bl) ==
    IF RaisesFloatingPointError(bl) THEN Fallback ELSE OneMinus(Prod(bl))

BeliefList(stmts) == [i \in 1..Len(stmts) |-> edges[stmts[i]].d.belief]

\* One evidence per source, whatever its count.
Expand_Once(sc, i) == [j \in 1..(Len(sc) - i + 1) |-> sc[i + j - 1][1]]

RECURSIVE Expand(_, _)
\* The evidence of one source_counts dict: each source, repeated count times.
Expand(sc, i) ==
    IF i > Len(sc) THEN << >>
    ELSE [j \in 1..sc[i][2] |-> sc[i][1]] \o Expand(sc, i + 1)

RECURSIVE EvidenceList(_, _)
\* evidence_list of _simple_scorer_update.
EvidenceList(stmts, i) ==
    IF i > Len(stmts) THEN << >>
    ELSE Expand(edges[stmts[i]].d.source_counts, 1) \o EvidenceList(stmts, i + 1)

\* The next edge of 'for e in G.edges'.
FlatEdgeAt == EdgeIter(gnodes, gedges)[bi + 1]

\* The assignment with the value brought into [0, 1] first.
SetBelief_Clamped(raw, flat, e, value) ==
    [raw |-> raw,
     flat |-> [flat EXCEPT ![e].belief = IF value.t = "num" THEN One ELSE value]]

\* The assignment made to the first statement's dict as well.
SetBelief_IntoStatement(raw, flat, e, value) ==
    [raw |-> [raw EXCEPT ![flat[e].statements[1]].d.belief = value],
     flat |-> [flat EXCEPT ![e].belief = value]]

\* G.edges[e]['belief'] = value.  The statements of G's edges are the data
\* dicts of the multigraph's own edges (raw), which the assignment leaves alone.
SetBelief(raw, flat, e, value) ==
    [raw |-> raw, flat |-> [flat EXCEPT ![e].belief = value]]

\* The aggregator was called for edge e and returned (or raised) r.
Called(e, r) == [calls EXCEPT ![e] = Append(@, r)]

Raised == [t |-> "raised", k |-> 0]

beliefFrame == <<call, method, sign_dict, gi, gnodes>>

\* Default strategy: the scorer returns a score for the evidence list.
ScoreDefault ==
    /\ pc = "belief" /\ method = "None"
    /\ bi < Len(gedges)
    /\ ev' = EvidenceList(gedges[FlatEdgeAt].statements, 1)
    /\ \E r \in ScorerValues :
          /\ edges' = SetBelief(edges, gedges, FlatEdgeAt, r).raw
          /\ gedges' = SetBelief(edges, gedges, FlatEdgeAt, r).flat
          /\ calls' = Called(FlatEdgeAt, r)
    /\ bi' = bi + 1
    /\ UNCHANGED <<pc, log>>
    /\ UNCHANGED beliefFrame /\ UNCHANGED tableFrame /\ UNCHANGED fnVars

\* The scorer's exception swallowed: the edge is left as it is and the loop
\* goes on.
ScorerRaises_Swallowed ==
    /\ pc = "belief" /\ method = "None"
    /\ bi < Len(gedges)
    /\ ev' = EvidenceList(gedges[FlatEdgeAt].statements, 1)
    /\ calls' = Called(FlatEdgeAt, Raised)
    /\ bi' = bi + 1
    /\ UNCHANGED <<pc, gedges, log>>
    /\ UNCHANGED beliefFrame /\ UNCHANGED ingestFrame /\ UNCHANGED fnVars

\* Default strategy: the scorer raises; nothing catches it.
ScorerRaises ==
    /\ pc = "belief" /\ method = "None"
    /\ bi < Len(gedges)
    /\ ev' = EvidenceList(gedges[FlatEdgeAt].statements, 1)
    /\ calls' = Called(FlatEdgeAt, Raised)
    /\ pc' = "raised"
    /\ UNCHANGED <<gedges, bi, log>>
    /\ UNCHANGED beliefFrame /\ UNCHANGED ingestFrame /\ UNCHANGED fnVars

\* 'complementary_belief': the closed form, or the fallback and its warning.
ScoreComplementary ==
    /\ pc = "belief" /\ method = "complementary_belief"
    /\ bi < Len(gedges)
    /\ LET bl == BeliefList(gedges[FlatEdgeAt].statements)
           r == complementary_belief(bl)
       IN  /\ edges' = SetBelief(edges, gedges, FlatEdgeAt, r).raw
           /\ gedges' = SetBelief(edges, gedges, FlatEdgeAt, r).flat
           /\ calls' = Called(FlatEdgeAt, r)
           /\ log' = IF RaisesFloatingPointError(bl)
                     THEN Append(log, [msg |-> "Resetting ag_belief", n |-> FlatEdgeAt])
                     ELSE log
    /\ bi' = bi + 1
    /\ UNCHANGED <<pc, ev>>
    /\ UNCHANGED beliefFrame /\ UNCHANGED tableFrame /\ UNCHANGED fnVars

\* A caller's function: its return value is stored as it is.
ScoreCustom ==
    /\ pc = "belief" /\ method = "custom"
    /\ bi < Len(gedges)
    /\ \E r \in CustomValues :
          /\ edges' = SetBelief(edges, gedges, FlatEdgeAt, r).raw
          /\ gedges' = SetBelief(edges, gedges, FlatEdgeAt, r).flat
          /\ calls' = Called(FlatEdgeAt, r)
    /\ bi' = bi + 1
    /\ UNCHANGED <<pc, log, ev>>
    /\ UNCHANGED beliefFrame /\ UNCHANGED tableFrame /\ UNCHANGED fnVars

\* 'return G' of _update_edge_belief and of the flattener.
ReturnFlat ==
    /\ pc = "belief"
    /\ bi = Len(gedges)
    /\ pc' = "flat_done"
    /\ UNCHANGED <<log, gedges, bi, calls, ev>>
    /\ UNCHANGED beliefFrame /\ UNCHANGED ingestFrame /\ UNCHANGED fnVars

InitFlat == IsFlatTable /\ pc = "from_df" /\ InitGraph /\ blist = << >>

Next ==
    \/ CheckColumns \/ SkipRow \/ AddRow \/ ReturnGraph
    \/ ToDigraph \/ ToSignedGraph
    \/ GroupDigraph \/ GroupSigned \/ GroupDone
    \/ ScoreDefault \/ ScorerRaises \/ ScoreComplementary \/ ScoreCustom
    \/ ReturnFlat

Spec == InitFlat /\ [][Next]_vars

(* ------------------ _complementary_belief on its own ------------------ *)

\* Lists of beliefs: every short list, and long runs of one belief with 1.0
\* in front of them, behind them or nowhere.
ShortLists == UNION {[1..n -> {Cpl(0), Cpl(1), Cpl(53), One}] : n \in 0..3}

Runs ==
    {[i \in 1..n |-> Cpl(k)] : n \in 1..MaxList, k \in {1, 52, 53}}

BeliefLists ==
    ShortLists \cup Runs
        \cup {<<One>> \o r : r \in Runs} \cup {r \o <<One>> : r \in Runs}

InitBelief ==
    /\ df = [columns |-> mandatory_columns, rows |-> << >>]
    /\ pc = "complementary_belief"
    /\ InitGraph
    /\ blist \in BeliefLists

\* ag_belief = _complementary_belief(...) for the list.
ApplyComplementary ==
    /\ pc = "complementary_belief"
    /\ ag' = complementary_belief(blist)
    /\ pc' = "returned_belief"
    /\ UNCHANGED <<df, call, method, sign_dict, index, skipped, nodes, edges,
                   log, gi, gnodes, gedges, bi, calls, ev, blist>>

SpecBelief == InitBelief /\ [][ApplyComplementary]_vars

(* ------------- _update_edge_belief on many parallel edges ------------- *)

\* Most rows of one ordered pair in a table given to the belief pass.
MaxParallel == 311

\* A table in blocks: rows a -> b, then rows b -> a (possibly none), every
\* row with both names, the mandatory columns and nothing else.
InBlocks(rows) ==
    /\ rows # << >>
    /\ \A i \in 1..Len(rows) :
          /\ DOMAIN rows[i] = mandatory_columns
          /\ <<rows[i]["agA_name"], rows[i]["agB_name"]>> \in {<<"a", "b">>, <<"b", "a">>}
    /\ rows[1]["agA_name"] = "a"
    /\ \A i \in 1..(Len(rows) - 1) :
          rows[i]["agA_name"] = "b" => rows[i + 1]["agA_name"] = "b"

FirstBlock(rows) == Cardinality({i \in 1..Len(rows) : rows[i]["agA_name"] = "a"})

\* The multigraph from_df returns for a table in blocks: the two nodes as
\* the first row gives them, and one edge per row, keyed within its pair.
BlockNodes(rows) == RowNodes(<< >>, rows[1])

BlockEdges(rows) ==
    LET n1 == FirstBlock(rows)
    IN  [i \in 1..Len(rows) |->
            [u |-> EdU(rows[i]), v |-> EdV(rows[i]),
             key |-> IF i <= n1 THEN i - 1 ELSE i - n1 - 1,
             d |-> EdData(rows[i])]]

\* A raw edge goes to a flattened edge unless the graph is signed and the
\* dictionary does not map its type; the key of that edge is none in a
\* DiGraph and the sign in a signed graph.
Mapped(c, sd, row) == c = "to_digraph" \/ row["stmt_type"] \in DOMAIN sd

FlatKey(c, sd, row) ==
    IF c = "to_digraph" THEN << >> ELSE <<sd[row["stmt_type"]]>>

SameFlat(c, sd, r1, r2) ==
    /\ Mapped(c, sd, r1) /\ Mapped(c, sd, r2)
    /\ FlatKey(c, sd, r1) = FlatKey(c, sd, r2)

\* The raw edges lo..hi (one block) that open a flattened edge, in order, and
\* the flattened edges they open, each with all the raw edges of its key.
Openers(c, sd, rows, lo, hi) ==
    SelectSeq([i \in 1..(hi - lo + 1) |-> lo + i - 1],
              LAMBDA i : /\ Mapped(c, sd, rows[i])
                         /\ \A j \in lo..(i - 1) : ~SameFlat(c, sd, rows[j], rows[i]))

BlockFlat(c, sd, rows, lo, hi) ==
    LET op == Openers(c, sd, rows, lo, hi)
    IN  [n \in 1..Len(op) |->
            [u |-> rows[op[n]]["agA_name"], v |-> rows[op[n]]["agB_name"],
             key |-> FlatKey(c, sd, rows[op[n]]),
             statements |->
                 SelectSeq([i \in 1..(hi - lo + 1) |-> lo + i - 1],
                           LAMBDA i : SameFlat(c, sd, rows[i], rows[op[n]])),
             sign |-> FlatKey(c, sd, rows[op[n]]),
             belief |-> NoBelief]]

\* The flattened graph when the grouping loop is over.
FlatEdges(c, sd, rows) ==
    BlockFlat(c, sd, rows, 1, FirstBlock(rows))
        \o BlockFlat(c, sd, rows, FirstBlock(rows) + 1, Len(rows))

FlatNodes(ge) == IF ge = << >> THEN << >> ELSE EdgeNodes(<< >>, ge[1].u, ge[1].v)

\* The state in which _update_edge_belief(G, m) is entered by flattening
\* call c on the multigraph of table t.
AtUpdate(t, c, sd, m) ==
    /\ df = t
    /\ call = c /\ sign_dict = sd /\ method = m
    /\ pc = "belief"
    /\ index = Len(t.rows) /\ skipped = 0 /\ log = << >>
    /\ nodes = BlockNodes(t.rows)
    /\ edges = BlockEdges(t.rows)
    /\ gi = Len(t.rows)
    /\ gedges = FlatEdges(c, sd, t.rows)
    /\ gnodes = FlatNodes(FlatEdges(c, sd, t.rows))
    /\ bi = 0
    /\ calls = [i \in 1..Len(FlatEdges(c, sd, t.rows)) |-> << >>]
    /\ ev = << >>
    /\ ag = NoBelief
    /\ blist = << >>

\* Tables with up to MaxParallel rows of one pair, each of belief 1 - 2^-53.
ParallelLengths == {1, 2, MaxParallel - 1, MaxParallel}

ParallelRow(a, b, v) ==
    RowOver(mandatory_columns, [BaseRow(a, b, v, 0, "c") EXCEPT !["belief"] = Cpl(53)])

ParallelTable(n1, v1, n2, v2) ==
    [columns |-> mandatory_columns,
     rows |-> [i \in 1..n1 |-> ParallelRow("a", "b", v1)]
                  \o [i \in 1..n2 |-> ParallelRow("b", "a", v2)]]

InitUpdate ==
    \E n1 \in ParallelLengths, n2 \in ParallelLengths \cup {0}, v1, v2 \in 1..3 :
        \/ AtUpdate(ParallelTable(n1, v1, n2, v2), "to_digraph", << >>,
                    "complementary_belief")
        \/ \E sd \in SignDicts :
              AtUpdate(ParallelTable(n1, v1, n2, v2), "to_signed_graph", sd,
                       "complementary_belief")

NextUpdate == ScoreComplementary \/ ReturnFlat

SpecUpdate == InitUpdate /\ [][NextUpdate]_vars

\* In the whole program, the belief pass on a table in blocks is entered in
\* the state AtUpdate describes.
EntryOfUpdate ==
    (pc = "belief" /\ bi = 0 /\ InBlocks(df.rows))
        => AtUpdate(df, call, sign_dict, method)

(* ======================= properties of from_df ======================== *)

\* from_df is past its column check and has consumed the first index rows.
InRows == pc \in {"rows", "returned"}

NullRow(r) == r["agA_name"] = None \/ r["agB_name"] = None

\* The rows consumed so far that have both endpoint names.
KeptRows == {i \in 1..index : ~NullRow(df.rows[i])}

EndpointNames ==
    {df.rows[i]["agA_name"] : i \in KeptRows} \cup {df.rows[i]["agB_name"] : i \in KeptRows}

NodeNames == {nodes[i].name : i \in 1..Len(nodes)}

\* The table has no column named like a parameter of add_edge.
PlainColumns == df.columns \cap {"key", "u_for_edge"} = {}

\* The names a kept row hands to the graph, as a node or as an edge's end.
NamesOfKeptRows ==
    UNION {{df.rows[i][c] : c \in {"agA_name", "agB_name", "u_for_edge"} \cap df.columns} :
              i \in KeptRows}

OneEdgePerKeptRow ==
    /\ Len(edges) = Cardinality(KeptRows)
    /\ NodeNames \subseteq NamesOfKeptRows
    /\ \A i \in 1..Len(edges) : {edges[i].u, edges[i].v} \subseteq NamesOfKeptRows
    /\ skipped = index - Cardinality(KeptRows)

\* C1: after every prefix of the rows (and so at the end) there is exactly
\* one raw edge per row with both endpoint names, the rows with a null name
\* have added no node and no edge, and the skip counter is their number.
C1_OneEdgePerNonNullRow == InRows => OneEdgePerKeptRow

\* C1 on the tables without a column named key or u_for_edge.
C1_PlainTables == (InRows /\ PlainColumns) => OneEdgePerKeptRow

\* C2: with a mandatory column missing, from_df raises at the column check:
\* no row is consumed, no node or edge exists, and the call never gets to
\* its loop or to a returned graph.
C2_SchemaErrorBeforeRows ==
    (\E c \in mandatory_columns : c \notin df.columns)
        => /\ pc \in {"from_df", "raised"}
           /\ index = 0 /\ skipped = 0
           /\ nodes = << >> /\ edges = << >>

C2_Witness ==
    /\ pc = "raised"
    /\ "agB_name" \notin df.columns
    /\ Len(df.rows) = MaxRows
    /\ \A i \in 1..Len(df.rows) : df.rows[i]["agA_name"] # None

NodeCountIsNameCount ==
    /\ Len(nodes) = Cardinality(EndpointNames)
    /\ Len(nodes) <= 2 * index

\* C3: after every prefix of the rows the number of nodes is the number of
\* distinct endpoint names of the rows kept so far, and at most twice the
\* number of rows.
C3_NodeCount == InRows => NodeCountIsNameCount

\* C3 on the tables without a column named key or u_for_edge.
C3_PlainTables == (InRows /\ PlainColumns) => NodeCountIsNameCount

\* The first kept row that names n as an endpoint, and the attributes that
\* row gives n: those of role A when n is its agA_name, else those of role B.
RowsNaming(n) ==
    {i \in KeptRows : df.rows[i]["agA_name"] = n \/ df.rows[i]["agB_name"] = n}

FirstSeenAttr(n) ==
    LET r == df.rows[Min(RowsNaming(n))]
    IN  IF r["agA_name"] = n
        THEN {<<"ns", r["agA_ns"]>>, <<"id", r["agA_id"]>>}
                 \cup {<<c, r[c]>> : c \in {"agA_x"} \cap df.columns}
        ELSE {<<"ns", r["agB_ns"]>>, <<"id", r["agB_id"]>>}
                 \cup {<<c, r[c]>> : c \in {"agB_x"} \cap df.columns}

FirstSeenWins ==
    \A i \in 1..Len(nodes) :
        RowsNaming(nodes[i].name) # {} => nodes[i].attr = FirstSeenAttr(nodes[i].name)

\* C4: after every prefix of the rows, every node that a kept row names as an
\* endpoint has the attributes (ns, id, role-prefixed extras) of the first
\* such row, role A before role B within the row; no later row has changed
\* them.
C4_FirstSeenAttributes == InRows => FirstSeenWins

\* C4 on the tables without a column named key or u_for_edge.
C4_PlainTables == (InRows /\ PlainColumns) => FirstSeenWins

\* The rows kept so far, in row order.
KeptSeq == SelectSeq([i \in 1..index |-> df.rows[i]], LAMBDA r : ~NullRow(r))

NextIndexKeys ==
    /\ Len(edges) = Len(KeptSeq)
    /\ \A i \in 1..Len(edges) :
          /\ edges[i].u = KeptSeq[i]["agA_name"]
          /\ edges[i].v = KeptSeq[i]["agB_name"]
          /\ edges[i].d.stmt_hash = KeptSeq[i]["stmt_hash"]
          /\ edges[i].d.belief = KeptSeq[i]["belief"]
          /\ edges[i].key =
                 Cardinality({j \in 1..(i - 1) :
                                  edges[j].u = edges[i].u /\ edges[j].v = edges[i].v})

\* C5: after every prefix of the rows, the i-th kept row is the i-th raw
\* edge, still with its own data, and its key is the number of earlier edges
\* of its ordered pair: the keys of a pair are 0..k-1 in row order.
C5_NextUnusedKey == InRows => NextIndexKeys

\* C5 on the tables without a column named key or u_for_edge.
C5_PlainTables == (InRows /\ PlainColumns) => NextIndexKeys

(* ====================== properties of flattening ====================== *)

\* The grouping loop of the flattening call is over.
Grouped == pc \in {"belief", "flat_done"} \/ (pc = "raised" /\ call # "from_df")

RawPairs == {<<edges[i].u, edges[i].v>> : i \in 1..Len(edges)}

\* The stmt_hash values of a list of raw edges (given by position), in order.
Hashes(refs) == [i \in 1..Len(refs) |-> edges[refs[i]].d.stmt_hash]

\* The raw edges of pair p, in creation order.
RawOfPair(p) ==
    SelectSeq([i \in 1..Len(edges) |-> i],
              LAMBDA i : edges[i].u = p[1] /\ edges[i].v = p[2])

\* The raw edges of pair p whose stmt_type the dictionary maps to sign sg.
RawOfPairSign(p, sg) ==
    SelectSeq(RawOfPair(p),
              LAMBDA i : /\ edges[i].d.stmt_type \in DOMAIN sign_dict
                         /\ sign_dict[edges[i].d.stmt_type] = sg)

FlatOf(p, key) ==
    {i \in 1..Len(gedges) : gedges[i].u = p[1] /\ gedges[i].v = p[2] /\ gedges[i].key = key}

FlatOfPair(p) == {i \in 1..Len(gedges) : gedges[i].u = p[1] /\ gedges[i].v = p[2]}

SignValues == {sign_dict[t] : t \in DOMAIN sign_dict}

DigraphIsGrouping ==
    /\ \A i \in 1..Len(gedges) : <<gedges[i].u, gedges[i].v>> \in RawPairs
    /\ \A p \in RawPairs :
          /\ Cardinality(FlatOfPair(p)) = 1
          /\ \A i \in FlatOfPair(p) :
                Hashes(gedges[i].statements) = Hashes(RawOfPair(p))

SignedIsGrouping ==
    /\ \A i \in 1..Len(gedges) :
          /\ <<gedges[i].u, gedges[i].v>> \in RawPairs
          /\ gedges[i].key = gedges[i].sign
          /\ gedges[i].statements # << >>
    /\ \A p \in RawPairs : \A sg \in SignValues :
          IF RawOfPairSign(p, sg) = << >>
          THEN FlatOf(p, <<sg>>) = {}
          ELSE /\ Cardinality(FlatOf(p, <<sg>>)) = 1
               /\ \A i \in FlatOf(p, <<sg>>) :
                     Hashes(gedges[i].statements) = Hashes(RawOfPairSign(p, sg))
    /\ \A p \in RawPairs :
          FlatOfPair(p) = UNION {FlatOf(p, <<sg>>) : sg \in SignValues}

\* C6: once the grouping loop is over, to_digraph has exactly one flattened
\* edge per ordered pair with a raw edge, whose statements carry the
\* stmt_hash values of the pair's raw edges in creation order; and
\* to_signed_graph has, per (pair, sign), one edge whose statements carry
\* those of the pair's raw edges whose type maps to the sign, so that a raw
\* edge of an unmapped type is in no list, and no error is raised for it.
C6_FlatteningIsGrouping ==
    /\ (Grouped /\ call = "to_digraph") => DigraphIsGrouping
    /\ (Grouped /\ call = "to_signed_graph") => SignedIsGrouping
    /\ (pc = "raised" /\ call # "from_df") => method = "None"

C6_Witness ==
    /\ pc = "flat_done" /\ call = "to_digraph"
    /\ Len(gedges) = 2
    /\ \E i \in 1..Len(gedges) :
          /\ Len(gedges[i].statements) = 2
          /\ Hashes(gedges[i].statements) = <<"h2", "h1">>

\* C7 as claimed: at most two flattened edges per ordered pair, whatever the
\* dictionary.
C7_AtMostTwoPerPair ==
    call = "to_signed_graph" =>
        \A p \in RawPairs : Cardinality(FlatOfPair(p)) <= 2

\* C7: a signed graph has at most one flattened edge per ordered pair and
\* sign value of the dictionary, keyed by that value; so at most two per
\* pair when the dictionary's values are +1 and -1.
C7_OnePerPairAndSign ==
    call = "to_signed_graph" =>
        \A p \in RawPairs :
            /\ \A i \in FlatOfPair(p) :
                  \E sg \in SignValues : gedges[i].key = <<sg>> /\ gedges[i].sign = <<sg>>
            /\ \A i, j \in FlatOfPair(p) : gedges[i].key = gedges[j].key => i = j
            /\ Cardinality(FlatOfPair(p)) <= Cardinality(SignValues)
            /\ SignValues \subseteq {1, -1} => Cardinality(FlatOfPair(p)) <= 2

C7_Witness ==
    /\ pc = "flat_done" /\ call = "to_signed_graph"
    /\ SignValues = {1, -1}
    /\ Len(edges) = 3
    /\ Cardinality(FlatOfPair(<<"a", "b">>)) = 2
    /\ \E i \in FlatOfPair(<<"a", "b">>) : Len(gedges[i].statements) = 2

\* C8: when a flattener returns, the aggregator has been called exactly once
\* for every flattened edge, and the edge's belief is what that call
\* returned, whatever the value.
C8_BeliefIsTheReturnValue ==
    pc = "flat_done" =>
        /\ Len(calls) = Len(gedges)
        /\ \A i \in 1..Len(gedges) :
              /\ Len(calls[i]) = 1
              /\ gedges[i].belief # NoBelief
              /\ gedges[i].belief = calls[i][1]

C8_Witness ==
    /\ pc = "flat_done" /\ method = "custom"
    /\ Len(gedges) >= 2
    /\ \E i \in 1..Len(gedges) : gedges[i].belief = Num(150)
    /\ \E i \in 1..Len(gedges) : gedges[i].belief = Cpl(2)

\* C9: no step of a flattening call with the default or the complementary
\* strategy (the call, a grouping step, a belief step, the return) changes
\* the multigraph: its nodes, their attributes, its edges, their keys and
\* their data, each raw edge's belief included.
C9_SourceUnchanged ==
    [][(pc \in {"returned", "group", "belief"} /\ method' # "custom")
           => (nodes' = nodes /\ edges' = edges)]_vars

C9_Witness ==
    /\ pc = "flat_done" /\ method = "complementary_belief"
    /\ \E i \in 1..Len(gedges) :
          /\ Len(gedges[i].statements) = 2
          /\ gedges[i].belief = Cpl(4)
          /\ \A j \in 1..2 : edges[gedges[i].statements[j]].d.belief # Cpl(4)

(* ================= properties of _complementary_belief ================ *)

\* x >= y for the beliefs 1 - 2^-k (0 for k = 0), 1.0 and the fallback
\* constant 1e-17.
Geq(x, y) ==
    \/ x.t = "one"
    \/ x.t = "fallback" /\ (y.t = "fallback" \/ y = Cpl(0))
    \/ x.t = "cpl" /\ y.t = "cpl" /\ x.k >= y.k
    \/ x.t = "cpl" /\ y.t = "fallback" /\ x.k >= 1

\* C10: for a non-empty list of beliefs in [0, 1] the value returned is at
\* least every belief of the list.
C10_AtLeastMaxBelief ==
    (pc = "returned_belief" /\ blist # << >>)
        => \A i \in 1..Len(blist) : Geq(ag, blist[i])

\* C10 on the lists whose product does not underflow.
C10_WithoutFallback ==
    (pc = "returned_belief" /\ blist # << >> /\ ~RaisesFloatingPointError(blist))
        => \A i \in 1..Len(blist) : Geq(ag, blist[i])

(* ============== properties of the complementary strategy ============== *)

RECURSIVE SumOf(_, _)
\* The sum of f over the finite set S.
SumOf(f, S) ==
    IF S = {} THEN 0
    ELSE LET x == CHOOSE y \in S : TRUE IN f[x] + SumOf(f, S \ {x})

\* 1 - prod(1 - b_i) of a list of beliefs, as a function of how often each
\* belief occurs in it and of nothing else: with a belief 1.0 the product is
\* 0, otherwise it is 2^-(sum of the k_i); the difference is rounded to the
\* significand of the extended type.
OneMinusProduct(bl) ==
    LET ks == {bl[i].k : i \in 1..Len(bl)}
        count == [k \in ks |-> k * Cardinality({i \in 1..Len(bl) : bl[i].k = k})]
        sum == SumOf(count, ks)
    IN  IF \E i \in 1..Len(bl) : bl[i].t # "cpl" THEN One
        ELSE IF sum > LongFloatBits THEN One ELSE Cpl(sum)

\* The flattened edges the belief pass has scored so far.
Scored == {i \in 1..Len(gedges) : i \in 1..Len(calls) /\ calls[i] # << >>}

\* The raw edges that feed flattened edge i: those of its pair, and in a
\* signed graph those of them whose type maps to its sign.
Feeding(i) ==
    IF call = "to_digraph" THEN RawOfPair(<<gedges[i].u, gedges[i].v>>)
    ELSE RawOfPairSign(<<gedges[i].u, gedges[i].v>>, gedges[i].sign[1])

\* C11: with the complementary strategy and no arithmetic failure, every
\* scored flattened edge has the belief 1 - prod(1 - b_i) over the raw edges
\* that feed it, a value that depends on which beliefs are grouped and not on
\* their order; the directed and the signed view of the same raw edges give
\* the same belief.
C11_OneMinusProduct ==
    (Grouped /\ method = "complementary_belief") =>
        \A i \in Scored :
            ~RaisesFloatingPointError(BeliefList(gedges[i].statements)) =>
                /\ gedges[i].belief = OneMinusProduct(BeliefList(gedges[i].statements))
                /\ gedges[i].belief = OneMinusProduct(BeliefList(Feeding(i)))

\* Two rows a -> b of beliefs 1 - 2^-3 and 1 - 2^-1, in that order, both
\* mapped to +1: one signed edge of sign +1 with two statements and belief
\* 1 - 2^-4, and no edge of sign -1.
C11_Witness ==
    /\ pc = "flat_done" /\ method = "complementary_belief"
    /\ call = "to_signed_graph"
    /\ Len(edges) = 2 /\ Len(gedges) = 1
    /\ gedges[1].sign = <<1>>
    /\ BeliefList(gedges[1].statements) = <<Cpl(3), Cpl(1)>>
    /\ gedges[1].belief = Cpl(4)

\* C11 on _complementary_belief alone, for the long lists as well: without an
\* arithmetic failure the value returned is 1 - prod(1 - b_i).
C11_OnLists ==
    (pc = "returned_belief" /\ ~RaisesFloatingPointError(blist))
        => ag = OneMinusProduct(blist)

\* The product of flattened edge i's computation raises FloatingPointError.
Fails(i) == RaisesFloatingPointError(BeliefList(gedges[i].statements))

\* The warnings of _complementary_belief for flattened edge i.
Warnings(i) ==
    {j \in 1..Len(log) : log[j].msg = "Resetting ag_belief" /\ log[j].n = i}

\* C12: a FloatingPointError in the computation for a flattened edge never
\* ends the call: the edge gets the fallback constant NP_PRECISION * 10 and
\* exactly one warning, an edge without a failure gets its computed belief
\* and no warning, the pass stands after the edges it has scored, at the next
\* edge of the graph or at its return, and when the flattening call returns
\* every flattened edge has been scored once.
C12_FallbackAndGoOn ==
    method = "complementary_belief" =>
        /\ pc # "raised"
        /\ \A i \in Scored :
              IF Fails(i)
              THEN gedges[i].belief = Fallback /\ Cardinality(Warnings(i)) = 1
              ELSE /\ gedges[i].belief = OneMinusProduct(BeliefList(gedges[i].statements))
                   /\ Warnings(i) = {}
        /\ \A i \in (1..Len(gedges)) \ Scored : Warnings(i) = {}
        /\ pc = "belief" =>
              /\ bi <= Len(gedges)
              /\ Scored = {EdgeIter(gnodes, gedges)[n] : n \in 1..bi}
        /\ pc = "flat_done" =>
              /\ Scored = 1..Len(gedges)
              /\ \A i \in 1..Len(gedges) : Len(calls[i]) = 1
              /\ Len(log) = Cardinality({i \in 1..Len(gedges) : Fails(i)})

\* A returned graph of two flattened edges: the first, of MaxParallel raw
\* edges, failed and has the fallback and the one warning; the second was
\* scored after it, without a failure.
C12_Witness ==
    /\ pc = "flat_done" /\ method = "complementary_belief"
    /\ Len(gedges) = 2
    /\ Len(gedges[1].statements) = MaxParallel
    /\ Fails(1) /\ gedges[1].belief = Fallback
    /\ ~Fails(2) /\ gedges[2].belief = Cpl(53)
    /\ Len(log) = 1

(* ================= properties of the default strategy ================= *)

\* The flattened edges in the order of 'for e in G.edges'.
FlatOrder == EdgeIter(gnodes, gedges)

\* The scorer has raised in this flattening call.
ScorerRaised == pc = "raised" /\ call # "from_df"

\* When the scorer has raised: it was called once for the edge the pass
\* stood at and never again, the edges before that one were scored once, the
\* later ones were never tried, and nothing was logged in its place.
RaisedOnce ==
    /\ method = "None"
    /\ bi < Len(gedges)
    /\ calls[FlatOrder[bi + 1]] = <<Raised>>
    /\ gedges[FlatOrder[bi + 1]].belief = NoBelief
    /\ \A n \in 1..bi :
          /\ Len(calls[FlatOrder[n]]) = 1
          /\ calls[FlatOrder[n]][1] # Raised
          /\ gedges[FlatOrder[n]].belief = calls[FlatOrder[n]][1]
    /\ \A n \in (bi + 2)..Len(gedges) :
          calls[FlatOrder[n]] = << >> /\ gedges[FlatOrder[n]].belief = NoBelief
    /\ \A j \in 1..Len(log) : log[j].msg # "Resetting ag_belief"

\* A graph a flattening call returns has a belief on every edge, from a call
\* that returned.
ReturnedFullyScored ==
    \A i \in 1..Len(gedges) :
        /\ gedges[i].belief # NoBelief
        /\ \A n \in 1..Len(calls[i]) : calls[i][n] # Raised

\* C13: when the scorer raises under the default strategy, the exception
\* leaves to_digraph / to_signed_graph after that one call, with no retry;
\* the call never returns a graph afterwards; and every graph a flattening
\* call does return has a belief on every edge, never on some only.
C13_ScorerFailurePropagates ==
    /\ [](ScorerRaised => RaisedOnce)
    /\ [](pc = "flat_done" => ReturnedFullyScored)
    /\ [][ScorerRaised => (pc' = "raised" /\ gedges' = gedges /\ calls' = calls)]_vars

\* The scorer raised at the second of two flattened edges: the first has its
\* belief, the second has none, and this graph is not returned.
C13_Witness ==
    /\ ScorerRaised
    /\ Len(gedges) = 2 /\ bi = 1
    /\ gedges[FlatOrder[1]].belief = Cpl(2)
    /\ gedges[FlatOrder[2]].belief = NoBelief
    /\ calls[FlatOrder[2]] = <<Raised>>

\* The edge whose evidence list ev is: the one scored last, or the one at
\* which the scorer raised.
LastScored == IF ScorerRaised THEN FlatOrder[bi + 1] ELSE FlatOrder[bi]

\* source_counts of the n-th raw edge grouped into flattened edge e, as the
\* (source, count) pairs in the order of the dict.
SourceCounts(e, n) == edges[gedges[e].statements[n]].d.source_counts

\* One evidence per (grouped raw edge, source key, repetition).
UnitsOf(e, n) ==
    UNION {{<<n, m, r>> : r \in 1..SourceCounts(e, n)[m][2]} :
              m \in 1..Len(SourceCounts(e, n))}

Units(e) == UNION {UnitsOf(e, n) : n \in 1..Len(gedges[e].statements)}

UnitBefore(s, t) ==
    \/ s[1] < t[1]
    \/ s[1] = t[1] /\ s[2] < t[2]
    \/ s[1] = t[1] /\ s[2] = t[2] /\ s[3] < t[3]

SourceNames(e) ==
    UNION {{SourceCounts(e, n)[m][1] : m \in 1..Len(SourceCounts(e, n))} :
              n \in 1..Len(gedges[e].statements)}

\* The sum over the grouped raw edges of the count of source s.
TotalCount(e, s) ==
    Cardinality({t \in Units(e) : SourceCounts(e, t[1])[t[2]][1] = s})

EvidenceIsReconstructed(e) ==
    /\ Len(ev) = Cardinality(Units(e))
    /\ \A j \in 1..Len(ev) : ev[j] \in SourceNames(e)
    /\ \A s \in SourceNames(e) :
          Cardinality({j \in 1..Len(ev) : ev[j] = s}) = TotalCount(e, s)
    /\ \A t \in Units(e) :
          ev[Cardinality({u \in Units(e) : UnitBefore(u, t)}) + 1]
              = SourceCounts(e, t[1])[t[2]][1]

\* C14: under the default strategy the evidence list given to the scorer for
\* a flattened edge has, for every source, as many items as the counts of
\* that source add up to over the grouped raw edges, and no other item; the
\* items come by grouped raw edge, then by source key, then by repetition;
\* and the scorer gets this list in the one call made for the edge.
C14_EvidenceList ==
    (method = "None" /\ (ScorerRaised \/ (Grouped /\ bi >= 1))) =>
        /\ EvidenceIsReconstructed(LastScored)
        /\ Len(calls[LastScored]) = 1

\* A flattened edge of an Inhibition (reach 1, sparser 2) and an Activation
\* (reach 1), in that order: four items.
C14_Witness ==
    /\ pc = "flat_done" /\ method = "None"
    /\ bi >= 1
    /\ Hashes(gedges[LastScored].statements) = <<"h2", "h1">>
    /\ ev = <<"reach", "sparser", "sparser", "reach">>

(* ================== order of grouping and aggregation ================= *)

\* The step calls the aggregator (for the edge the pass stands at).
Invokes == pc = "belief" /\ calls' # calls

\* Some aggregator call has been made in this flattening call.
Invoked == \E i \in 1..Len(calls) : calls[i] # << >>

StatementsOf(ge) == [i \in 1..Len(ge) |-> ge[i].statements]

\* C15: the aggregator is only called when the grouping loop has taken every
\* raw edge, and the statements of the edge it is called for are then all
\* the raw edges that feed that edge; from the first call on, no statements
\* list grows and no flattened edge is added.
C15_GroupingBeforeBelief ==
    /\ [][Invokes => /\ gi = Len(edges)
                      /\ gedges[FlatEdgeAt].statements = Feeding(FlatEdgeAt)
                      /\ StatementsOf(gedges') = StatementsOf(gedges)]_vars
    /\ [](Invoked => gi = Len(edges))
    /\ [][Invoked => StatementsOf(gedges') = StatementsOf(gedges)]_vars

\* The first aggregator call has been made, for an edge of two raw edges;
\* another flattened edge is still to be scored.
C15_Witness ==
    /\ pc = "belief" /\ bi = 1
    /\ Len(edges) = 3 /\ Len(gedges) = 2
    /\ Len(gedges[FlatOrder[1]].statements) = 2
    /\ gedges[FlatOrder[1]].belief # NoBelief
    /\ gedges[FlatOrder[2]].belief = NoBelief

====
